---------------------------- MODULE Spec2Model ----------------------------
(***************************************************************************)
(* Model of the qw-doing daily-note logger: the shared core                *)
(* (utils.ts, timeParser.ts, core.ts) that resolves the time of a new      *)
(* entry, locates the Today section of a note, merges the entry in         *)
(* chronological order and writes the note back.                           *)
(*                                                                         *)
(* Strings are sequences of one-character strings, so that the regular     *)
(* expressions, trim, split and join of the source are computed character  *)
(* by character.                                                           *)
(***************************************************************************)
EXTENDS Integers, Sequences, FiniteSets, TLC

VARIABLES store, dirExists, todayHeader, req, res, calls, pre, written, nAdds,
          probe, modal

vars == <<store, dirExists, todayHeader, req, res, calls, pre, written, nAdds,
          probe, modal>>

(***************************************************************************)
(* Characters and strings                                                  *)
(***************************************************************************)
NL == "\n"

DigitChars == <<"0", "1", "2", "3", "4", "5", "6", "7", "8", "9">>

IsDigit(c) == \E i \in 1..10 : DigitChars[i] = c

DigitVal(c) == (CHOOSE i \in 1..10 : DigitChars[i] = c) - 1

\* \s of a JavaScript regular expression, and the characters trim() removes
IsSpace(c) == c \in {" ", "\t", NL}

\* . of a JavaScript regular expression: anything but a line terminator
IsDot(c) == c # NL

\* the least and the greatest element of a non-empty set of integers
Min(S) == CHOOSE i \in S : \A j \in S : i <= j

Max(S) == CHOOSE i \in S : \A j \in S : j <= i

\* s.substring(from) with a 1-based from
Drop(s, from) == IF from > Len(s) THEN <<>> ELSE SubSeq(s, from, Len(s))

\* s.startsWith(prefix)
StartsWith(s, prefix) ==
    /\ Len(s) >= Len(prefix)
    /\ SubSeq(s, 1, Len(prefix)) = prefix

\* s.startsWith(prefix, at) with a 1-based at
HasAt(s, at, prefix) ==
    /\ at >= 1
    /\ at + Len(prefix) - 1 <= Len(s)
    /\ SubSeq(s, at, at + Len(prefix) - 1) = prefix

\* String.prototype.trim; keep holds the positions that are not white space
TrimTo(s, keep) == IF keep = {} THEN <<>> ELSE SubSeq(s, Min(keep), Max(keep))

Trim(s) == TrimTo(s, {i \in 1..Len(s) : ~IsSpace(s[i])})

\* s.lastIndexOf(c), 1-based; 0 when c does not occur (-1 in the source)
LastOf(hits) == IF hits = {} THEN 0 ELSE Max(hits)

LastIndexOf(s, c) == LastOf({i \in 1..Len(s) : s[i] = c})

\* the k-th smallest element of a set of integers
Nth(S, k) == CHOOSE x \in S : Cardinality({y \in S : y < x}) = k - 1

\* the pieces of s between consecutive positions in cuts
Pieces(s, cuts) ==
    [k \in 1..(Cardinality(cuts) - 1) |->
        SubSeq(s, Nth(cuts, k) + 1, Nth(cuts, k + 1) - 1)]

\* s.split(c): always at least one piece
Split(s, c) ==
    Pieces(s, {0} \cup {i \in 1..Len(s) : s[i] = c} \cup {Len(s) + 1})

\* lines.join(c)
RECURSIVE Join(_, _)
Join(lines, c) ==
    IF Len(lines) = 0 THEN <<>>
    ELSE IF Len(lines) = 1 THEN lines[1]
    ELSE lines[1] \o <<c>> \o Join(Tail(lines), c)

\* String(num) for a natural number
RECURSIVE NumToStr(_)
NumToStr(num) ==
    IF num < 10 THEN <<DigitChars[num + 1]>>
    ELSE NumToStr(num \div 10) \o <<DigitChars[(num % 10) + 1]>>

\* parseInt / Number of a string of digits
RECURSIVE StrToNum(_)
StrToNum(s) ==
    IF Len(s) = 0 THEN 0
    ELSE 10 * StrToNum(SubSeq(s, 1, Len(s) - 1)) + DigitVal(s[Len(s)])

\* the length of the run that starts at position at and ends before the
\* first position in stop, the positions from at on where the run breaks
RunUntil(s, at, stop) ==
    IF at > Len(s) THEN 0
    ELSE IF stop = {} THEN Len(s) - at + 1
    ELSE Min(stop) - at

\* the length of the run of white space that starts at position at
SpaceRun(s, at) == RunUntil(s, at, {i \in at..Len(s) : ~IsSpace(s[i])})

\* the length of the run of digits that starts at position at
DigitRun(s, at) == RunUntil(s, at, {i \in at..Len(s) : ~IsDigit(s[i])})

(***************************************************************************)
(* utils.ts                                                                *)
(***************************************************************************)
PadWidth == 2

RECURSIVE Zeros(_)
Zeros(n) == IF n <= 0 THEN <<>> ELSE <<"0">> \o Zeros(n - 1)

\* '0'.repeat(length - String(num).length) + num, for the string of num
PadStr(str) ==
    IF Len(str) >= PadWidth THEN str ELSE Zeros(PadWidth - Len(str)) \o str

padZero(num) == PadStr(NumToStr(num))

\* the hour alternative 2[0-3] widened to 2[0-9]
ValidHours_AnyTwenties(hours) ==
    \/ Len(hours) = 1 /\ IsDigit(hours[1])
    \/ Len(hours) = 2 /\ hours[1] \in {"0", "1", "2"} /\ IsDigit(hours[2])

\* ([0-1]?[0-9]|2[0-3])
ValidHours(hours) ==
    \/ Len(hours) = 1 /\ IsDigit(hours[1])
    \/ Len(hours) = 2 /\ hours[1] \in {"0", "1"} /\ IsDigit(hours[2])
    \/ Len(hours) = 2 /\ hours[1] = "2" /\ hours[2] \in {"0", "1", "2", "3"}

\* :[0-5][0-9]$ with the colon at position c
ValidMinutesAt(timeString, c) ==
    /\ Len(timeString) = c + 2
    /\ timeString[c] = ":"
    /\ timeString[c + 1] \in {"0", "1", "2", "3", "4", "5"}
    /\ IsDigit(timeString[c + 2])

\* /^([0-1]?[0-9]|2[0-3]):[0-5][0-9]$/
validateTimeFormat(timeString) ==
    /\ Len(timeString) \in {4, 5}
    /\ ValidMinutesAt(timeString, Len(timeString) - 2)
    /\ ValidHours(SubSeq(timeString, 1, Len(timeString) - 3))

\* `${padZero(parseInt(hours))}:${padZero(parseInt(minutes))}`
FormatParts(parts) ==
    padZero(StrToNum(parts[1])) \o <<":">> \o padZero(StrToNum(parts[2]))

\* the time string passed on without padding
formatTime_Unpadded(timeString) == timeString

formatTime(timeString) == FormatParts(Split(timeString, ":"))

NoEntry == [ok |-> FALSE, time |-> <<>>, message |-> <<>>, raw |-> <<>>]

\* the optional bold markers never skipped
SkipBold_Never(line, at) == at

\* (?:\*\*)? at position at: the position after it
SkipBold(line, at) == IF HasAt(line, at, <<"*", "*">>) THEN at + 2 ELSE at

\* raw rebuilt from the time and the message instead of kept from the line
ParseMessage_RawRendered(line, p2, p3, p4, ks) ==
    IF ks = {} THEN NoEntry
    ELSE [ok |-> TRUE,
          time |-> SubSeq(line, p2, p3 - 1),
          message |-> SubSeq(line, p4 + Max(ks), Len(line)),
          raw |-> <<"-", " ", "*", "*">> \o formatTime(SubSeq(line, p2, p3 - 1))
                      \o <<"*", "*", " ">>
                      \o SubSeq(line, p4 + Max(ks), Len(line))]

\* \s+(.+)$ at position p4, after the time line[p2..p3-1]: \s+ is greedy and
\* gives characters back until (.+)$ can match; ks holds the lengths it can have
ParseMessage(line, p2, p3, p4, ks) ==
    IF ks = {} THEN NoEntry
    ELSE [ok |-> TRUE,
          time |-> SubSeq(line, p2, p3 - 1),
          message |-> SubSeq(line, p4 + Max(ks), Len(line)),
          raw |-> line]

\* (.*) in place of (.+): the message may be empty
ParseRest_EmptyMessage(line, p2, p3, p4) ==
    ParseMessage(line, p2, p3, p4,
                 {k \in 1..SpaceRun(line, p4) :
                     \A i \in (p4 + k)..Len(line) : IsDot(line[i])})

ParseRest(line, p2, p3, p4) ==
    ParseMessage(line, p2, p3, p4,
                 {k \in 1..SpaceRun(line, p4) :
                     /\ p4 + k <= Len(line)
                     /\ \A i \in (p4 + k)..Len(line) : IsDot(line[i])})

\* (\d{1,2}:\d{2}) at position p2, with hd the length of the run of digits there
ParseTime(line, p2, hd) ==
    IF /\ hd \in {1, 2}
       /\ HasAt(line, p2 + hd, <<":">>)
       /\ DigitRun(line, p2 + hd + 1) >= 2
    THEN ParseRest(line, p2, p2 + hd + 3, SkipBold(line, p2 + hd + 3))
    ELSE NoEntry

\* (?:\*\*)? and what follows, at position p1
ParseBold(line, p1) == ParseTime(line, p1, DigitRun(line, p1))

\* /^-\s+(?:\*\*)?(\d{1,2}:\d{2})(?:\*\*)?\s+(.+)$/
parseLogEntry(line) ==
    IF Len(line) >= 1 /\ line[1] = "-" /\ SpaceRun(line, 2) >= 1
    THEN ParseBold(line, SkipBold(line, 2 + SpaceRun(line, 2)))
    ELSE NoEntry

\* hours * 60 + minutes of the parts of an H:mm / HH:mm string
MinutesOf(parts) == StrToNum(parts[1]) * 60 + StrToNum(parts[2])

TotalMinutes(time) == MinutesOf(Split(time, ":"))

compareTimeStrings(timeA, timeB) == TotalMinutes(timeA) - TotalMinutes(timeB)

\* a wall-clock instant: the fields a JavaScript Date is read through
DateOf(y, m, d, hh, mm) ==
    [year |-> y, month |-> m, day |-> d, hours |-> hh, minutes |-> mm]

\* getTodayFilename, reading the clock as now
getTodayFilename(now) ==
    NumToStr(now.year) \o <<"-">> \o padZero(now.month) \o <<"-">>
        \o padZero(now.day) \o <<".", "m", "d">>

\* getCurrentTime, reading the clock as now
getCurrentTime(now) == padZero(now.hours) \o <<":">> \o padZero(now.minutes)

DefaultHeader == <<"#", "#", " ", "T", "o", "d", "a", "y">>

\* filename.replace('.md', '')
StripMd(filename) ==
    IF Len(filename) >= 3
          /\ SubSeq(filename, Len(filename) - 2, Len(filename)) = <<".", "m", "d">>
    THEN SubSeq(filename, 1, Len(filename) - 3)
    ELSE filename

createDailyNoteTemplate(now) ==
    <<"#", " ">> \o StripMd(getTodayFilename(now)) \o <<NL, NL>>
        \o DefaultHeader \o <<NL, NL>>

\* the first index in hits that is at least from, or none
FirstFrom(hits, from, none) ==
    IF {i \in hits : i >= from} = {} THEN none ELSE Min({i \in hits : i >= from})

\* the scan for the end of the section started at the header line itself
SectionAt_FromHeader(lines, start) ==
    [found      |-> start # -1,
     startIndex |-> start,
     endIndex   |-> IF start = -1 THEN Len(lines)
                    ELSE FirstFrom({i \in 0..(Len(lines) - 1) :
                                      StartsWith(lines[i + 1], <<"#", "#", " ">>)},
                                   start, Len(lines)),
     lines      |-> lines]

\* the section that starts at line start, or none when start is -1
\* (HEADER_NOT_FOUND is thrown)
SectionAt(lines, start) ==
    [found      |-> start # -1,
     startIndex |-> start,
     endIndex   |-> IF start = -1 THEN Len(lines)
                    ELSE FirstFrom({i \in 0..(Len(lines) - 1) :
                                      StartsWith(lines[i + 1], <<"#", "#", " ">>)},
                                   start + 1, Len(lines)),
     lines      |-> lines]

LocateSection(lines, headerText) ==
    SectionAt(lines,
              FirstFrom({i \in 0..(Len(lines) - 1) : Trim(lines[i + 1]) = headerText},
                        0, -1))

\* startIndex and endIndex are the 0-based indices of the source
findTodaySection(content, headerText) ==
    LocateSection(Split(content, NL), headerText)

\* the position (0..Len) after which entry is inserted into a sorted sequence:
\* it follows every element that does not compare greater
\* an entry placed before the entries of its own time
SortedPosition_BeforeEqual(sorted, entry) ==
    LastOf({i \in 1..Len(sorted) :
               compareTimeStrings(sorted[i].time, entry.time) < 0})

SortedPosition(sorted, entry) ==
    LastOf({i \in 1..Len(sorted) :
               compareTimeStrings(sorted[i].time, entry.time) <= 0})

InsertAt(seq, pos, x) ==
    SubSeq(seq, 1, pos) \o <<x>> \o Drop(seq, pos + 1)

InsertSorted(sorted, entry) ==
    InsertAt(sorted, SortedPosition(sorted, entry), entry)

\* Array.prototype.sort with compareTimeStrings: a stable sort
RECURSIVE SortEntries(_)
SortEntries(entries) ==
    IF Len(entries) = 0 THEN <<>>
    ELSE InsertSorted(SortEntries(SubSeq(entries, 1, Len(entries) - 1)),
                      entries[Len(entries)])

\* if (entry) entries.push(entry)
EntryList(entry) == IF entry.ok THEN <<entry>> ELSE <<>>

\* the parsed entries of lines[from..to-1] (0-based), in file order
RECURSIVE CollectEntries(_, _, _)
CollectEntries(lines, from, to) ==
    IF from >= to THEN <<>>
    ELSE EntryList(parseLogEntry(lines[from + 1]))
             \o CollectEntries(lines, from + 1, to)

SectionEntries(section) ==
    SortEntries(CollectEntries(section.lines, section.startIndex + 1,
                               section.endIndex))

\* defined only where the section is found
getTodayLogEntries(content, headerText) ==
    SectionEntries(findTodaySection(content, headerText))

(***************************************************************************)
(* timeParser.ts                                                           *)
(***************************************************************************)
\* What the natural-language interpreter (chrono.parse) answers for a time
\* reference: no result, an exception, or the instant of its first result.
NoResult == [kind |-> "none", date |-> DateOf(0, 0, 0, 0, 0)]

Throws == [kind |-> "throws", date |-> DateOf(0, 0, 0, 0, 0)]

Resolved(date) == [kind |-> "date", date |-> date]

getFilenameForDate(date) ==
    NumToStr(date.year) \o <<"-">> \o padZero(date.month) \o <<"-">>
        \o padZero(date.day) \o <<".", "m", "d">>

\* both instants are reset to the start of their day, then compared
isFutureDate(date, now) ==
    \/ date.year > now.year
    \/ date.year = now.year /\ date.month > now.month
    \/ date.year = now.year /\ date.month = now.month /\ date.day > now.day

\* an undefined timestamp or targetDate is the empty string
Parsed(message, timestamp, targetDate, isNaturalLanguage, future) ==
    [message |-> message, timestamp |-> timestamp, targetDate |-> targetDate,
     isNaturalLanguage |-> isNaturalLanguage, isFutureDate |-> future]

\* the text after the last '@', trimmed; empty when there is no '@'
ReferenceAfter(input, atIndex) ==
    IF atIndex = 0 THEN <<>> ELSE Trim(Drop(input, atIndex + 1))

TimeReference(input) == ReferenceAfter(input, LastIndexOf(input, "@"))

\* whether parseMessageWithTime hands the reference to the interpreter
ConsultsChrono(input) ==
    /\ TimeReference(input) # <<>>
    /\ ~validateTimeFormat(TimeReference(input))

\* the interpreter asked before the reference is tried as a strict time
ParseReference_ChronoFirst(input, message, timeReference, chrono, now) ==
    IF timeReference = <<>>
    THEN Parsed(Trim(input), <<>>, <<>>, FALSE, FALSE)
    ELSE IF chrono.kind = "date" /\ isFutureDate(chrono.date, now)
    THEN Parsed(message, <<>>, <<>>, TRUE, TRUE)
    ELSE IF chrono.kind = "date"
    THEN Parsed(message,
                padZero(chrono.date.hours) \o <<":">>
                    \o padZero(chrono.date.minutes),
                getFilenameForDate(chrono.date), TRUE, FALSE)
    ELSE IF validateTimeFormat(timeReference)
    THEN Parsed(message, formatTime(timeReference), <<>>, FALSE, FALSE)
    ELSE Parsed(Trim(input), <<>>, <<>>, FALSE, FALSE)

\* a reference the interpreter cannot read dropped from the message
ParseReference_DropsReference(input, message, timeReference, chrono, now) ==
    IF timeReference = <<>>
    THEN Parsed(Trim(input), <<>>, <<>>, FALSE, FALSE)
    ELSE IF validateTimeFormat(timeReference)
    THEN Parsed(message, formatTime(timeReference), <<>>, FALSE, FALSE)
    ELSE IF chrono.kind = "date" /\ isFutureDate(chrono.date, now)
    THEN Parsed(message, <<>>, <<>>, TRUE, TRUE)
    ELSE IF chrono.kind = "date"
    THEN Parsed(message,
                padZero(chrono.date.hours) \o <<":">>
                    \o padZero(chrono.date.minutes),
                getFilenameForDate(chrono.date), TRUE, FALSE)
    ELSE Parsed(message, <<>>, <<>>, FALSE, FALSE)

\* parseMessageWithTime once the input is cut at the last '@'
ParseReference(input, message, timeReference, chrono, now) ==
    IF timeReference = <<>>
    THEN Parsed(Trim(input), <<>>, <<>>, FALSE, FALSE)
    ELSE IF validateTimeFormat(timeReference)
    THEN Parsed(message, formatTime(timeReference), <<>>, FALSE, FALSE)
    ELSE IF chrono.kind = "date" /\ isFutureDate(chrono.date, now)
    THEN Parsed(message, <<>>, <<>>, TRUE, TRUE)
    ELSE IF chrono.kind = "date"
    THEN Parsed(message,
                padZero(chrono.date.hours) \o <<":">>
                    \o padZero(chrono.date.minutes),
                getFilenameForDate(chrono.date), TRUE, FALSE)
    ELSE Parsed(Trim(input), <<>>, <<>>, FALSE, FALSE)

ParseAt(input, atIndex, chrono, now) ==
    IF atIndex = 0
    THEN Parsed(Trim(input), <<>>, <<>>, FALSE, FALSE)
    ELSE ParseReference(input, Trim(SubSeq(input, 1, atIndex - 1)),
                        Trim(Drop(input, atIndex + 1)), chrono, now)

\* the input cut at its first '@'
parseMessageWithTime_FirstAt(input, chrono, now) ==
    ParseAt(input,
            IF LastIndexOf(input, "@") = 0 THEN 0
            ELSE Min({i \in 1..Len(input) : input[i] = "@"}),
            chrono, now)

parseMessageWithTime(input, chrono, now) ==
    ParseAt(input, LastIndexOf(input, "@"), chrono, now)

(***************************************************************************)
(* core.ts                                                                 *)
(***************************************************************************)
Absent == <<"absent">>      \* the value of a path that holds no file

NoTime == <<>>              \* a customTime that is not given

FilePath(journalDir, filename) == journalDir \o <<"/">> \o filename

\* the result of an operation; the fields an outcome lacks hold their defaults
Failure(op, errorType) ==
    [op |-> op, success |-> FALSE, errorType |-> errorType,
     entryAdded |-> <<>>, totalEntries |-> 0, isNewFile |-> FALSE,
     parsedTime |-> <<>>, entries |-> <<>>, filename |-> <<>>]

AddSuccess(entryAdded, totalEntries, isNewFile, parsedTime) ==
    [op |-> "add", success |-> TRUE, errorType |-> "",
     entryAdded |-> entryAdded, totalEntries |-> totalEntries,
     isNewFile |-> isNewFile, parsedTime |-> parsedTime,
     entries |-> <<>>, filename |-> <<>>]

ListSuccess(entries, filename) ==
    [op |-> "list", success |-> TRUE, errorType |-> "",
     entryAdded |-> <<>>, totalEntries |-> 0, isNewFile |-> FALSE,
     parsedTime |-> <<>>, entries |-> entries, filename |-> filename]

Outcome(result, files, dir, called) ==
    [result |-> result, files |-> files, dir |-> dir, called |-> called]

Call(name, path) == [name |-> name, path |-> path]

\* the time of the message taken before the custom time
ChooseTimestamp_MarkerFirst(customTime, parsed, now) ==
    IF parsed.timestamp # <<>> THEN parsed.timestamp
    ELSE IF customTime # NoTime THEN formatTime(customTime)
    ELSE getCurrentTime(now)

\* timestamp priority: customTime > parsed @ time > current time
ChooseTimestamp(customTime, parsed, now) ==
    IF customTime # NoTime THEN formatTime(customTime)
    ELSE IF parsed.timestamp # <<>> THEN parsed.timestamp
    ELSE getCurrentTime(now)

RenderEntry(timestamp, message) ==
    <<"-", " ", "*", "*">> \o timestamp \o <<"*", "*", " ">> \o message

\* blank lines removed with the entries
RECURSIVE RemoveEntries_AndBlanks(_, _, _)
RemoveEntries_AndBlanks(lines, i, startIndex) ==
    IF i <= startIndex THEN lines
    ELSE IF parseLogEntry(lines[i + 1]).ok \/ lines[i + 1] = <<>>
    THEN RemoveEntries_AndBlanks(SubSeq(lines, 1, i) \o Drop(lines, i + 2),
                                 i - 1, startIndex)
    ELSE RemoveEntries_AndBlanks(lines, i - 1, startIndex)

\* for (i = endIndex - 1; i > startIndex; i--) if (parseLogEntry(lines[i]))
\*     lines.splice(i, 1)
RECURSIVE RemoveEntries(_, _, _)
RemoveEntries(lines, i, startIndex) ==
    IF i <= startIndex THEN lines
    ELSE IF parseLogEntry(lines[i + 1]).ok
    THEN RemoveEntries(SubSeq(lines, 1, i) \o Drop(lines, i + 2),
                       i - 1, startIndex)
    ELSE RemoveEntries(lines, i - 1, startIndex)

\* allEntries.forEach((entry, index) =>
\*     lines.splice(insertPosition + index, 0, entry.raw))
RECURSIVE InsertEntries(_, _, _, _)
InsertEntries(lines, allEntries, insertPosition, index) ==
    IF index >= Len(allEntries) THEN lines
    ELSE InsertEntries(InsertAt(lines, insertPosition + index,
                                allEntries[index + 1].raw),
                       allEntries, insertPosition, index + 1)

\* the new entry appended and the sort left out
MergeEntries_Unsorted(existingEntries, newEntry) ==
    Append(existingEntries, newEntry)

\* existing entries and the new one, sorted
MergeEntries(existingEntries, newEntry) ==
    SortEntries(Append(existingEntries, newEntry))

\* the entries put back at the end of what is left of the section
RebuildLines_EntriesLast(section, allEntries) ==
    InsertEntries(RemoveEntries(section.lines, section.endIndex - 1,
                                section.startIndex),
                  allEntries,
                  section.endIndex
                      - Len(SectionEntries(section)), 0)

\* the entries removed down from the last line of the note, not of the section
RebuildLines_WholeNote(section, allEntries) ==
    InsertEntries(RemoveEntries(section.lines, Len(section.lines) - 1,
                                section.startIndex),
                  allEntries, section.startIndex + 1, 0)

\* the lines of the section rebuilt around the sorted entries
RebuildLines(section, allEntries) ==
    InsertEntries(RemoveEntries(section.lines, section.endIndex - 1,
                                section.startIndex),
                  allEntries, section.startIndex + 1, 0)

\* The context of one add operation once the request is resolved: what it
\* was called with and what it has computed before it touches storage.
AddContext(config, files, dir, now, fault, parsed, timestamp) ==
    [config |-> config, files |-> files, dir |-> dir, now |-> now,
     fault |-> fault, parsed |-> parsed, timestamp |-> timestamp,
     filepath |-> FilePath(config.journalDir, getTodayFilename(now)),
     logEntry |-> RenderEntry(timestamp, parsed.message)]

NewEntry(c) ==
    [ok |-> TRUE, time |-> c.timestamp, message |-> c.parsed.message,
     raw |-> c.logEntry]

\* the note written a second time after the first write
WriteBack_WritesTwice(c, section, allEntries, isNewFile, called) ==
    IF c.fault = "write"
    THEN Outcome(Failure("add", "FILE_WRITE_ERROR"), c.files,
                 c.dir \/ isNewFile, Append(called, Call("write", c.filepath)))
    ELSE Outcome(AddSuccess(c.logEntry, Len(allEntries), isNewFile,
                            IF c.parsed.isNaturalLanguage
                            THEN c.parsed.timestamp ELSE <<>>),
                 [c.files EXCEPT ![c.filepath] =
                     Join(RebuildLines(section, allEntries), NL)],
                 c.dir \/ isNewFile,
                 called \o <<Call("write", c.filepath), Call("write", c.filepath)>>)

\* the exception of a throwing write left to the caller
WriteBack_Uncaught(c, section, allEntries, isNewFile, called) ==
    IF c.fault = "write"
    THEN Outcome(Failure("add", "uncaught"), c.files,
                 c.dir \/ isNewFile, Append(called, Call("write", c.filepath)))
    ELSE Outcome(AddSuccess(c.logEntry, Len(allEntries), isNewFile,
                            IF c.parsed.isNaturalLanguage
                            THEN c.parsed.timestamp ELSE <<>>),
                 [c.files EXCEPT ![c.filepath] =
                     Join(RebuildLines(section, allEntries), NL)],
                 c.dir \/ isNewFile, Append(called, Call("write", c.filepath)))

\* await fileOps.write(filepath, updatedContent) and the returned result
WriteBack(c, section, allEntries, isNewFile, called) ==
    IF c.fault = "write"
    THEN Outcome(Failure("add", "FILE_WRITE_ERROR"), c.files,
                 c.dir \/ isNewFile, Append(called, Call("write", c.filepath)))
    ELSE Outcome(AddSuccess(c.logEntry, Len(allEntries), isNewFile,
                            IF c.parsed.isNaturalLanguage
                            THEN c.parsed.timestamp ELSE <<>>),
                 [c.files EXCEPT ![c.filepath] =
                     Join(RebuildLines(section, allEntries), NL)],
                 c.dir \/ isNewFile, Append(called, Call("write", c.filepath)))

\* the section is located, the entries merged and the note written
MergeInto(c, section, existingEntries, isNewFile, called) ==
    WriteBack(c, section, MergeEntries(existingEntries, NewEntry(c)),
              isNewFile, called)

MergeAndWrite(c, content, isNewFile, called) ==
    IF ~findTodaySection(content, c.config.todayHeader).found
    THEN Outcome(Failure("add", "HEADER_NOT_FOUND"), c.files,
                 c.dir \/ isNewFile, called)
    ELSE MergeInto(c, findTodaySection(content, c.config.todayHeader),
                   getTodayLogEntries(content, c.config.todayHeader),
                   isNewFile, called)

\* read the existing file or create a new one, then merge and write
LoadAndMerge(c) ==
    IF c.fault = "exists"
    THEN Outcome(Failure("add", "FILE_WRITE_ERROR"), c.files, c.dir,
                 <<Call("exists", c.filepath)>>)
    ELSE IF c.files[c.filepath] # Absent
    THEN IF c.fault = "read"
         THEN Outcome(Failure("add", "FILE_WRITE_ERROR"), c.files, c.dir,
                      <<Call("exists", c.filepath), Call("read", c.filepath)>>)
         ELSE MergeAndWrite(c, c.files[c.filepath], FALSE,
                      <<Call("exists", c.filepath), Call("read", c.filepath)>>)
    ELSE IF c.fault = "ensureDir"
         THEN Outcome(Failure("add", "FILE_WRITE_ERROR"), c.files, c.dir,
                      <<Call("exists", c.filepath),
                        Call("ensureDir", c.config.journalDir)>>)
         ELSE MergeAndWrite(c, createDailyNoteTemplate(c.now), TRUE,
                      <<Call("exists", c.filepath),
                        Call("ensureDir", c.config.journalDir)>>)

\* the operation once the message is parsed
AddParsed(command, config, files, dir, now, fault, parsed) ==
    IF command.customTime # NoTime /\ ~validateTimeFormat(command.customTime)
    THEN Outcome(Failure("add", "INVALID_TIME_FORMAT"), files, dir, <<>>)
    ELSE LoadAndMerge(AddContext(config, files, dir, now, fault, parsed,
                                 ChooseTimestamp(command.customTime, parsed, now)))

\* chrono is what the interpreter answers if it is asked; fault names the
\* storage call that throws in this operation, if any
addLogEntryCore(command, config, files, dir, now, chrono, fault) ==
    AddParsed(command, config, files, dir, now, fault,
              parseMessageWithTime(command.message, chrono, now))

\* a note without the header listed as a note without entries
ListLoaded_IgnoresHeader(config, files, dir, filename, content, called) ==
    IF ~findTodaySection(content, config.todayHeader).found
    THEN Outcome(ListSuccess(<<>>, filename), files, dir, called)
    ELSE Outcome(ListSuccess(getTodayLogEntries(content, config.todayHeader),
                             filename),
                 files, dir, called)

\* the operation once the note is read
ListLoaded(config, files, dir, filename, content, called) ==
    IF ~findTodaySection(content, config.todayHeader).found
    THEN Outcome(Failure("list", "HEADER_NOT_FOUND"), files, dir, called)
    ELSE Outcome(ListSuccess(getTodayLogEntries(content, config.todayHeader),
                             filename),
                 files, dir, called)

\* the note read whether it exists or not
ListAt_ReadsAlways(config, files, dir, fault, filename, filepath) ==
    IF fault = "exists"
    THEN Outcome(Failure("list", "FILE_WRITE_ERROR"), files, dir,
                 <<Call("exists", filepath)>>)
    ELSE IF fault = "read" \/ files[filepath] = Absent
    THEN Outcome(Failure("list", "FILE_WRITE_ERROR"), files, dir,
                 <<Call("exists", filepath), Call("read", filepath)>>)
    ELSE ListLoaded(config, files, dir, filename, files[filepath],
                    <<Call("exists", filepath), Call("read", filepath)>>)

ListAt(config, files, dir, fault, filename, filepath) ==
    IF fault = "exists"
    THEN Outcome(Failure("list", "FILE_WRITE_ERROR"), files, dir,
                 <<Call("exists", filepath)>>)
    ELSE IF files[filepath] = Absent
    THEN Outcome(ListSuccess(<<>>, filename), files, dir,
                 <<Call("exists", filepath)>>)
    ELSE IF fault = "read"
    THEN Outcome(Failure("list", "FILE_WRITE_ERROR"), files, dir,
                 <<Call("exists", filepath), Call("read", filepath)>>)
    ELSE ListLoaded(config, files, dir, filename, files[filepath],
                    <<Call("exists", filepath), Call("read", filepath)>>)

listTodayEntriesCore(config, files, dir, now, fault) ==
    ListAt(config, files, dir, fault, getTodayFilename(now),
           FilePath(config.journalDir, getTodayFilename(now)))

(***************************************************************************)
(* The environment: the clock, the interpreter's answers, the requests,    *)
(* the notes found on disk and the configuration                           *)
(***************************************************************************)
MaxAdds == 2        \* successful adds in one behaviour

Today == DateOf(2025, 6, 7, 0, 0)

Yesterday == DateOf(2025, 6, 6, 12, 0)

Tomorrow == DateOf(2025, 6, 8, 13, 30)

LastYear == DateOf(2024, 12, 31, 23, 59)

\* the instants at which an operation reads the clock
Morning == DateOf(2025, 6, 7, 8, 15)

Afternoon == DateOf(2025, 6, 7, 13, 30)

Clocks == {Morning, Afternoon}

ChronoAnswers ==
    {NoResult, Throws, Resolved(Yesterday), Resolved(DateOf(2025, 6, 7, 12, 30)),
     Resolved(Tomorrow), Resolved(LastYear)}

Faults == {"none", "exists", "read", "ensureDir", "write"}

JournalDir == <<"J">>

LogHeader == <<"#", "#", " ", "L", "o", "g">>

Headers == {DefaultHeader, LogHeader}

Config == [journalDir |-> JournalDir, todayHeader |-> todayHeader]

PathOf(date) == FilePath(JournalDir, getFilenameForDate(date))

TodayPath == PathOf(Today)

Paths == {PathOf(Today), PathOf(Yesterday), PathOf(Tomorrow), PathOf(LastYear)}

MsgPlain == <<"a">>

MsgStrict == <<"b", " ", "@", "9", ":", "0", "5">>

MsgNatural == <<"c", " ", "@", "y", "d">>

MsgOnlyTime == <<"@", "1", "4", ":", "3", "0">>

Messages == {MsgPlain, MsgStrict, MsgNatural, MsgOnlyTime}

ValidCustomTime == <<"7", ":", "3", "0">>

CustomTimes ==
    {NoTime, ValidCustomTime, <<"9", ":", "5">>, <<"2", "4", ":", "0", "0">>,
     <<"1", "2", ":", "6", "0">>}

\* a note whose Today section holds unsorted entries, plain and bold, a tie,
\* a blank line and prose, followed by another section
NoteMixed ==
    Join(<<<<"i", "n", "t", "r", "o">>,
           DefaultHeader,
           <<"-", " ", "9", ":", "0", "5", " ", "x">>,
           <<>>,
           <<"-", " ", "*", "*", "1", "3", ":", "3", "0", "*", "*", " ", "y">>,
           <<"p">>,
           <<"-", " ", "*", "*", "0", "9", ":", "0", "5", "*", "*", " ", "w">>,
           <<"#", "#", " ", "O", "t", "h", "e", "r">>,
           <<"-", " ", "0", "7", ":", "0", "0", " ", "z">>>>, NL)

\* a note kept under the other header, with two entries of the same time
NoteLog ==
    Join(<<LogHeader,
           <<"-", " ", "*", "*", "1", "0", ":", "0", "0", "*", "*", " ", "a">>,
           <<"-", " ", "*", "*", "1", "0", ":", "0", "0", "*", "*", " ", "b">>>>, NL)

InitialNotes == {Absent, NoteMixed, NoteLog}

NoRequest ==
    [op |-> "none", message |-> <<>>, customTime |-> NoTime,
     now |-> DateOf(0, 0, 0, 0, 0), chrono |-> NoResult]

Request(op, message, customTime, now, chrono) ==
    [op |-> op, message |-> message, customTime |-> customTime,
     now |-> now, chrono |-> chrono]

\* the two listeners of the quick-log modal that call submitEntry: the Enter
\* key of the text input and the Add button
Triggers == {"enter", "click"}

\* one call of submitEntry: where its addLogEntryCore stands, the clock it
\* read, the note it is about to write and the result it returned
IdleAdd ==
    [pc |-> "idle", now |-> Morning, isNewFile |-> FALSE, creating |-> FALSE,
     pending |-> <<>>, result |-> Failure("none", "")]

\* no modal on screen
NoModal ==
    [open |-> FALSE, message |-> <<>>, now |-> Morning,
     adds |-> [t \in Triggers |-> IdleAdd]]

\* the line parser applied to a rendered pair, outside any operation
NoProbe == [kind |-> "none", time |-> <<>>, message |-> <<>>, line |-> <<>>,
            entry |-> NoEntry]

Init ==
    /\ store \in {[p \in Paths |-> IF p = TodayPath THEN note ELSE Absent] :
                     note \in InitialNotes}
    /\ dirExists \in BOOLEAN
    /\ store[TodayPath] # Absent => dirExists
    /\ todayHeader \in Headers
    /\ req = NoRequest
    /\ res = Failure("none", "")
    /\ calls = <<>>
    /\ pre = [store |-> store, dirExists |-> dirExists]
    /\ written = {}
    /\ nAdds = 0
    /\ probe = NoProbe
    /\ modal = NoModal

\* The add requests of the model, each with the clock reading, the
\* interpreter's answer and the storage call that throws: the plain request at
\* every clock reading with every storage fault; every message that does not
\* reach the interpreter with every custom time; the natural-language message
\* with every answer of the interpreter, with and without a custom time.
Input(message, customTime, now, chrono, fault) ==
    [message |-> message, customTime |-> customTime, now |-> now,
     chrono |-> chrono, fault |-> fault]

Requests ==
    {Input(MsgPlain, NoTime, now, NoResult, fault) :
        now \in Clocks, fault \in Faults}
    \cup {Input(message, customTime, Morning, NoResult, "none") :
        message \in {MsgPlain, MsgStrict, MsgOnlyTime}, customTime \in CustomTimes}
    \cup {Input(MsgNatural, customTime, Afternoon, chrono, "none") :
        customTime \in {NoTime, ValidCustomTime}, chrono \in ChronoAnswers}

\* An operation that changes nothing in storage leaves the next operation the
\* choices and outcomes of the state before it: operations are explored from
\* the initial states and from the states an operation changed.
Progressed ==
    \/ req.op = "none"
    \/ store # pre.store
    \/ dirExists # pre.dirExists

\* the state after an operation that was called with request and ended in out
Complete(request, out) ==
    /\ store' = out.files
    /\ dirExists' = out.dir
    /\ res' = out.result
    /\ calls' = out.called
    /\ req' = request
    /\ pre' = [store |-> store, dirExists |-> dirExists]
    /\ written' = IF out.result.op = "add" /\ out.result.success
                  THEN written \cup {out.called[Len(out.called)].path}
                  ELSE written
    /\ nAdds' = IF out.result.op = "add" /\ out.result.success
                THEN nAdds + 1 ELSE nAdds
    /\ UNCHANGED <<todayHeader, probe, modal>>

\* one add operation, from the request to the returned result
AddEntry ==
    /\ nAdds < MaxAdds
    /\ Progressed
    /\ \E r \in Requests :
          Complete(Request("add", r.message, r.customTime, r.now, r.chrono),
                   addLogEntryCore([message |-> r.message,
                                    customTime |-> r.customTime],
                                   Config, store, dirExists, r.now, r.chrono,
                                   r.fault))

\* one list operation
ListEntries ==
    /\ Progressed
    /\ \E now \in Clocks, fault \in {"none", "exists", "read"} :
          Complete(Request("list", <<>>, NoTime, now, NoResult),
                   listTodayEntriesCore(Config, store, dirExists, now, fault))

Next == AddEntry \/ ListEntries

Spec == Init /\ [][Next]_vars


(***************************************************************************)
(* The line parser on rendered pairs: a pair (time of day, message) is     *)
(* rendered as addLogEntryCore renders it and the line is parsed back.     *)
(***************************************************************************)
RoundTripHours == {0, 9, 10, 23}

RoundTripMinutes == {0, 5, 59}

\* single-line messages that are not empty once trimmed
RoundTripMessages ==
    {<<"a">>, <<"a", " ", "b">>, <<"x", " ">>, <<" ", "x">>, <<"\t", "x">>,
     <<"*", "*", "b">>, <<"5">>, <<"1", ":", "0", "0", " ", "z">>,
     <<"-", " ", "0", "9", ":", "0", "0", " ", "q">>, <<"@">>}

Probe(time, message, line) ==
    [kind |-> "roundtrip", time |-> time, message |-> message, line |-> line,
     entry |-> parseLogEntry(line)]

InitRoundTrip ==
    /\ store = [p \in Paths |-> Absent]
    /\ dirExists = FALSE
    /\ todayHeader = DefaultHeader
    /\ req = NoRequest
    /\ res = Failure("none", "")
    /\ calls = <<>>
    /\ pre = [store |-> store, dirExists |-> dirExists]
    /\ written = {}
    /\ nAdds = 0
    /\ probe = NoProbe
    /\ modal = NoModal

\* a pair is rendered and the rendered line parsed
RenderAndParse ==
    /\ \E hh \in RoundTripHours, mm \in RoundTripMinutes,
          message \in RoundTripMessages :
          probe' = Probe(getCurrentTime(DateOf(2025, 6, 7, hh, mm)), message,
                         RenderEntry(getCurrentTime(DateOf(2025, 6, 7, hh, mm)),
                                     message))
    /\ UNCHANGED <<store, dirExists, todayHeader, req, res, calls, pre, written,
                   nAdds, modal>>

NextRoundTrip == RenderAndParse

SpecRoundTrip == InitRoundTrip /\ [][NextRoundTrip]_vars

(***************************************************************************)
(* The resolver on its own: parseMessageWithTime applied to an input, with *)
(* the answer the interpreter gives if it is asked.                        *)
(***************************************************************************)
ResolveInputs ==
    {<<"a">>,
     <<" ", "a", " ">>,
     <<"a", "@", "b", " ", "@", "9", ":", "0", "5">>,
     <<"a", " ", "@">>,
     <<"a", "@", "b", " ", "@", " ", " ">>,
     <<"@">>,
     <<"x", "@", "y", " ", "@", "y", "d">>,
     <<"a", " ", "@", "y", "d">>,
     <<"a", "@", " ", "7", ":", "3", "0", " ">>,
     <<"@", "9", ":", "0", "5">>,
     <<"a", " ", "@", "2", "4", ":", "0", "0">>}

ResolveProbe(input, chrono, now) ==
    [kind |-> "resolve", input |-> input, chrono |-> chrono, now |-> now,
     asked |-> ConsultsChrono(input),
     parsed |-> parseMessageWithTime(input, chrono, now)]

InitResolve == InitRoundTrip

\* an input is resolved
Resolve ==
    /\ \E input \in ResolveInputs, chrono \in ChronoAnswers, now \in Clocks :
          probe' = ResolveProbe(input, chrono, now)
    /\ UNCHANGED <<store, dirExists, todayHeader, req, res, calls, pre, written,
                   nAdds, modal>>

NextResolve == Resolve

SpecResolve == InitResolve /\ [][NextResolve]_vars

(***************************************************************************)
(* The section locator on its own: findTodaySection applied to every note  *)
(* of one to three lines drawn from headers, padded headers, other level-2 *)
(* headers and lines that are no headers, for each configured header.      *)
(***************************************************************************)
LocateLines ==
    {DefaultHeader,
     <<" ">> \o DefaultHeader \o <<" ">>,
     LogHeader,
     <<"#", "#", " ", "O">>,
     <<"#", "#", "p">>,
     <<"p">>}

LocateNotes ==
    {<<a>> : a \in LocateLines}
        \cup {<<a, b>> : a \in LocateLines, b \in LocateLines}
        \cup {<<a, b, c>> : a \in LocateLines, b \in LocateLines,
                            c \in LocateLines}

LocateProbe(content, headerText) ==
    [kind |-> "locate", content |-> content, headerText |-> headerText,
     section |-> findTodaySection(content, headerText)]

\* the section of a note is located
Locate ==
    /\ \E lines \in LocateNotes, headerText \in Headers :
          probe' = LocateProbe(Join(lines, NL), headerText)
    /\ UNCHANGED <<store, dirExists, todayHeader, req, res, calls, pre, written,
                   nAdds, modal>>

SpecLocate == InitRoundTrip /\ [][Locate]_vars

(***************************************************************************)
(* The line parser on its own: parseLogEntry applied to lines put together *)
(* from a bullet, one or two spaces, the time with or without each bold    *)
(* marker and with one or two hour digits, white space and a message.      *)
(***************************************************************************)
ParseGaps == {<<" ">>, <<" ", " ">>}

ParseTimes ==
    {<<"9", ":", "0", "5">>, <<"0", "9", ":", "0", "5">>,
     <<"1", "4", ":", "3", "0">>}

ParseSeparators == {<<>>, <<" ">>, <<" ", " ">>}

ParseMessages == {<<>>, <<"x">>, <<"x", " ", "y">>}

Bold(on) == IF on THEN <<"*", "*">> ELSE <<>>

LineOf(gap, open, time, close, sep, message) ==
    <<"-">> \o gap \o Bold(open) \o time \o Bold(close) \o sep \o message

ParseProbe(gap, open, time, close, sep, message) ==
    [kind |-> "parse", gap |-> gap, open |-> open, time |-> time,
     close |-> close, sep |-> sep, message |-> message,
     line |-> LineOf(gap, open, time, close, sep, message),
     entry |-> parseLogEntry(LineOf(gap, open, time, close, sep, message))]

\* a line is parsed
ParseLine ==
    /\ \E gap \in ParseGaps, open \in BOOLEAN, time \in ParseTimes,
          close \in BOOLEAN, sep \in ParseSeparators, message \in ParseMessages :
          probe' = ParseProbe(gap, open, time, close, sep, message)
    /\ UNCHANGED <<store, dirExists, todayHeader, req, res, calls, pre, written,
                   nAdds, modal>>

SpecParse == InitRoundTrip /\ [][ParseLine]_vars

(***************************************************************************)
(* Listing on its own: listTodayEntriesCore applied to the notes that may  *)
(* be found on disk, with and without entries, with and without a header.  *)
(***************************************************************************)
\* prose under the default header, no entry line
NoteProse ==
    Join(<<<<"#", " ", "t">>,
           DefaultHeader,
           <<"p", "r", "o", "s", "e">>>>, NL)

\* prose and no header at all
NoteBare == Join(<<<<"p", "r", "o", "s", "e">>, <<>>, <<"m", "o", "r", "e">>>>, NL)

\* the default header over lines that look like entries and are none: a time
\* without a message, a time without a bullet
NoteEmptyMessage ==
    Join(<<DefaultHeader,
           <<"-", " ", "*", "*", "1", "4", ":", "3", "0", "*", "*", " ">>,
           <<"0", "9", ":", "0", "5", " ", "x">>>>, NL)

\* the header alone, indented
NoteHeaderOnly == <<" ">> \o DefaultHeader

ListNotes ==
    {Absent, NoteMixed, NoteLog, NoteProse, NoteBare, NoteEmptyMessage,
     NoteHeaderOnly, createDailyNoteTemplate(Morning)}

InitList ==
    /\ store \in {[p \in Paths |-> IF p = TodayPath THEN note ELSE Absent] :
                     note \in ListNotes}
    /\ dirExists \in BOOLEAN
    /\ store[TodayPath] # Absent => dirExists
    /\ todayHeader \in Headers
    /\ req = NoRequest
    /\ res = Failure("none", "")
    /\ calls = <<>>
    /\ pre = [store |-> store, dirExists |-> dirExists]
    /\ written = {}
    /\ nAdds = 0
    /\ probe = NoProbe
    /\ modal = NoModal

NextList == ListEntries

SpecList == InitList /\ [][NextList]_vars

(***************************************************************************)
(* One add into a section as a user may have left it: addLogEntryCore      *)
(* applied once to notes whose section holds entries among blank lines,    *)
(* prose, sub-headers, indented bullets and lines that look like entries.  *)
(***************************************************************************)
\* entries out of order around a sub-header, a blank line and an indented
\* bullet, with a section after them
NoteNested ==
    Join(<<DefaultHeader,
           <<"-", " ", "2", "3", ":", "5", "9", " ", "l">>,
           <<"#", "#", "#", " ", "s">>,
           <<>>,
           <<"-", " ", "*", "*", "0", ":", "0", "5", "*", "*", " ", "e">>,
           <<" ", "-", " ", "1", ":", "0", "0", " ", "i">>,
           <<"#", "#", " ", "O", "t", "h", "e", "r">>,
           <<"-", " ", "0", "7", ":", "0", "0", " ", "z">>>>, NL)

SectionNotes ==
    {Absent, NoteMixed, NoteLog, NoteNested, NoteProse, NoteEmptyMessage,
     NoteHeaderOnly}

InitSection ==
    /\ store \in {[p \in Paths |-> IF p = TodayPath THEN note ELSE Absent] :
                     note \in SectionNotes}
    /\ dirExists \in BOOLEAN
    /\ store[TodayPath] # Absent => dirExists
    /\ todayHeader \in Headers
    /\ req = NoRequest
    /\ res = Failure("none", "")
    /\ calls = <<>>
    /\ pre = [store |-> store, dirExists |-> dirExists]
    /\ written = {}
    /\ nAdds = 0
    /\ probe = NoProbe
    /\ modal = NoModal

\* the one add operation, from the request to the returned result
AddOnce ==
    /\ req.op = "none"
    /\ \E r \in Requests :
          Complete(Request("add", r.message, r.customTime, r.now, r.chrono),
                   addLogEntryCore([message |-> r.message,
                                    customTime |-> r.customTime],
                                   Config, store, dirExists, r.now, r.chrono,
                                   r.fault))

SpecSection == InitSection /\ [][AddOnce]_vars

(***************************************************************************)
(* The quick-log modal: submitEntry called by the Enter key and by the Add *)
(* button while the modal is open.  Each call runs addLogEntryCore, which  *)
(* gives control back at every await: after exists is called, after read  *)
(* or ensureDir is called, after write is called.  The steps of the two    *)
(* calls interleave.  The write of the plugin looks the file up when it is *)
(* called and then modifies or creates it; a create that finds the file    *)
(* made in the meantime either throws or replaces it.                      *)
(***************************************************************************)
NextMinute == DateOf(2025, 6, 7, 8, 16)

ModalMessages == {MsgPlain, MsgStrict, <<" ">>}

InitModal ==
    /\ store \in {[p \in Paths |-> IF p = TodayPath THEN note ELSE Absent] :
                     note \in InitialNotes}
    /\ dirExists \in BOOLEAN
    /\ store[TodayPath] # Absent => dirExists
    /\ todayHeader \in Headers
    /\ req = NoRequest
    /\ res = Failure("none", "")
    /\ calls = <<>>
    /\ pre = [store |-> store, dirExists |-> dirExists]
    /\ written = {}
    /\ nAdds = 0
    /\ probe = NoProbe
    /\ modal \in {[open |-> TRUE, message |-> message, now |-> Morning,
                   adds |-> [t \in Triggers |-> IdleAdd]] :
                     message \in ModalMessages}

\* command = { message: this.message.trim() }
ModalCommand == [message |-> Trim(modal.message), customTime |-> NoTime]

\* the message parsed by the call that read the clock as now; these messages
\* do not reach the interpreter
ModalParsed(now) == parseMessageWithTime(ModalCommand.message, NoResult, now)

ModalContext(now) ==
    AddContext(Config, store, dirExists, now, "none", ModalParsed(now),
               ChooseTimestamp(NoTime, ModalParsed(now), now))

\* the step of the call of trigger t recorded
StepTo(t, add, called) ==
    /\ modal' = [modal EXCEPT !.adds[t] = add]
    /\ calls' = calls \o called

\* the Enter key or the Add button: submitEntry runs up to its first await,
\* with exists called
Submit(t) ==
    /\ modal.open
    /\ modal.adds[t].pc = "idle"
    /\ Trim(modal.message) # <<>>
    /\ StepTo(t, [IdleAdd EXCEPT !.pc = "exists", !.now = modal.now],
              <<Call("exists", ModalContext(modal.now).filepath)>>)
    /\ UNCHANGED <<store, dirExists, todayHeader, req, res, pre, written, nAdds,
                   probe>>

\* exists answers: read is called for a note that is there, ensureDir for one
\* that is not
AfterExists(t) ==
    /\ modal.adds[t].pc = "exists"
    /\ IF store[ModalContext(modal.adds[t].now).filepath] # Absent
       THEN StepTo(t, [modal.adds[t] EXCEPT !.pc = "read"],
                   <<Call("read", ModalContext(modal.adds[t].now).filepath)>>)
       ELSE StepTo(t, [modal.adds[t] EXCEPT !.pc = "ensureDir", !.isNewFile = TRUE],
                   <<Call("ensureDir", JournalDir)>>)
    /\ UNCHANGED <<store, dirExists, todayHeader, req, res, pre, written, nAdds,
                   probe>>

\* the call once its content is merged: write is called, or the failure is
\* returned and shown
Merged(add, c, out) ==
    IF out.result.success
    THEN [add EXCEPT !.pc = "write",
                     !.creating = (store[c.filepath] = Absent),
                     !.pending = out.files[c.filepath],
                     !.result = out.result]
    ELSE [add EXCEPT !.pc = "done", !.result = out.result]

\* write is called unless the merge failed
WriteCalled(add, c) ==
    IF add.pc = "write" THEN <<Call("write", c.filepath)>> ELSE <<>>

\* the call of trigger t goes on as add
Proceed(t, add) ==
    StepTo(t, add, WriteCalled(add, ModalContext(modal.adds[t].now)))

\* read or ensureDir answers: the section is located, the entries are merged
\* and sorted, the lines rebuilt
AfterLoad(t) ==
    /\ modal.adds[t].pc \in {"read", "ensureDir"}
    /\ dirExists' = (dirExists \/ modal.adds[t].pc = "ensureDir")
    /\ Proceed(t,
               Merged(modal.adds[t], ModalContext(modal.adds[t].now),
                      MergeAndWrite(ModalContext(modal.adds[t].now),
                                    IF modal.adds[t].pc = "read"
                                    THEN store[ModalContext(modal.adds[t].now).filepath]
                                    ELSE createDailyNoteTemplate(modal.adds[t].now),
                                    modal.adds[t].isNewFile, <<>>)))
    /\ UNCHANGED <<store, todayHeader, req, res, pre, written, nAdds, probe>>

\* write answers: the note is replaced, the result is returned and the modal
\* closes; or the create of a note made in the meantime throws and the error
\* is shown
AfterWrite(t) ==
    /\ modal.adds[t].pc = "write"
    /\ \/ /\ store' = [store EXCEPT ![ModalContext(modal.adds[t].now).filepath] =
                          modal.adds[t].pending]
          /\ modal' = [modal EXCEPT !.adds[t].pc = "done", !.open = FALSE]
       \/ /\ modal.adds[t].creating
          /\ store[ModalContext(modal.adds[t].now).filepath] # Absent
          /\ modal' = [modal EXCEPT !.adds[t].pc = "done",
                                    !.adds[t].result =
                                        Failure("add", "FILE_WRITE_ERROR")]
          /\ UNCHANGED store
    /\ UNCHANGED <<dirExists, todayHeader, req, res, calls, pre, written, nAdds,
                   probe>>

\* the clock passes to the next minute
Tick ==
    /\ modal.now = Morning
    /\ modal' = [modal EXCEPT !.now = NextMinute]
    /\ UNCHANGED <<store, dirExists, todayHeader, req, res, calls, pre, written,
                   nAdds, probe>>

NextModal ==
    \/ \E t \in Triggers : Submit(t)
    \/ \E t \in Triggers : AfterExists(t)
    \/ \E t \in Triggers : AfterLoad(t)
    \/ \E t \in Triggers : AfterWrite(t)
    \/ Tick

SpecModal == InitModal /\ [][NextModal]_vars

(***************************************************************************)
(* Properties                                                              *)
(***************************************************************************)
AddSucceeded == req.op = "add" /\ res.success

AddFrom(note) == AddSucceeded /\ pre.store[TodayPath] = note

\* the recognized entries of a section in the order of their lines
FileEntries(section) ==
    CollectEntries(section.lines, section.startIndex + 1, section.endIndex)

NoteEntries(content) ==
    IF content = Absent THEN <<>>
    ELSE FileEntries(findTodaySection(content, todayHeader))

HasSection(content) ==
    content # Absent /\ findTodaySection(content, todayHeader).found

NonDecreasing(entries) ==
    \A i \in 1..(Len(entries) - 1) :
        TotalMinutes(entries[i].time) <= TotalMinutes(entries[i + 1].time)

RawLines(entries) == [i \in 1..Len(entries) |-> entries[i].raw]

\* the timestamp of a line rendered as "- **HH:mm** message"
Stamp(line) == SubSeq(line, 5, 9)

LineMinutes(line) ==
    IF parseLogEntry(line).ok THEN TotalMinutes(parseLogEntry(line).time)
    ELSE TotalMinutes(Stamp(line))

SameMinutes(lines, minutes) ==
    SelectSeq(lines, LAMBDA line : LineMinutes(line) = minutes)

\* the n lines that follow the header line of a section
BlockOf(section, n) ==
    SubSeq(section.lines, section.startIndex + 2, section.startIndex + 1 + n)

WrittenBlock ==
    BlockOf(findTodaySection(store[TodayPath], todayHeader), res.totalEntries)

WroteTo(path) == \E i \in 1..Len(calls) : calls[i] = Call("write", path)

WroteAny == \E i \in 1..Len(calls) : calls[i].name = "write"

\* C1: in every note that a successful add has written, the section is found
\* and its recognized entry lines stand in non-decreasing order of minutes
\* since midnight, whatever the times of the adds and whatever note they
\* started from.
C1_SortedAfterAdds ==
    \A p \in written :
        /\ HasSection(store[p])
        /\ NonDecreasing(NoteEntries(store[p]))

\* a second add has landed in a section that was on disk unsorted, and its
\* line stands neither first nor last among at least four entries
C1_Witness ==
    /\ AddSucceeded
    /\ nAdds = 2
    /\ written = {TodayPath}
    /\ Len(NoteEntries(store[TodayPath])) >= 4
    /\ \E i \in 2..(Len(NoteEntries(store[TodayPath])) - 1) :
          NoteEntries(store[TodayPath])[i].raw = res.entryAdded
    /\ pre.store[TodayPath] # Absent

\* C2: after a successful add the lines of the written block that carry the
\* new entry's time are the section's former entries of that time, in their
\* former order, followed by the new entry's line.
C2_TiesKeepMergeOrder ==
    AddSucceeded =>
        SameMinutes(WrittenBlock, TotalMinutes(Stamp(res.entryAdded)))
            = Append(SameMinutes(RawLines(NoteEntries(pre.store[TodayPath])),
                                 TotalMinutes(Stamp(res.entryAdded))),
                     res.entryAdded)

\* an add at 9:05 into the note that already holds two different 9:05 lines
C2_Witness ==
    /\ AddFrom(NoteMixed)
    /\ todayHeader = DefaultHeader
    /\ Stamp(res.entryAdded) = <<"0", "9", ":", "0", "5">>
    /\ Len(SameMinutes(WrittenBlock, 545)) = 3
    /\ WrittenBlock[3] = res.entryAdded

ChronoDate(request) == request.chrono.kind = "date"

\* C3: an add whose time reference the interpreter resolves to a day after
\* today fails, and the write of storage is not called for it.
C3_FutureDateRejected ==
    (req.op = "add" /\ ChronoDate(req)
        /\ isFutureDate(req.chrono.date, req.now))
    => (~res.success /\ ~WroteAny)

\* C4: a successful add whose time reference the interpreter resolves to a
\* day before today writes that day's note and leaves today's note as it was.
C4_PastDateRedirected ==
    (AddSucceeded /\ ChronoDate(req)
        /\ ~isFutureDate(req.chrono.date, req.now)
        /\ getFilenameForDate(req.chrono.date) # getTodayFilename(req.now))
    => (WroteTo(PathOf(req.chrono.date))
        /\ store[TodayPath] = pre.store[TodayPath])

\* a custom time H:mm, with a one-digit hour and a minute in range
UnpaddedHour(time) ==
    /\ Len(time) = 4
    /\ IsDigit(time[1])
    /\ time[2] = ":"
    /\ time[3] \in {"0", "1", "2", "3", "4", "5"}
    /\ IsDigit(time[4])

\* a custom time H:m or HH:m, with a one-digit minute
OneDigitMinute(time) ==
    /\ Len(time) \in {3, 4}
    /\ time[Len(time) - 1] = ":"
    /\ \A i \in (1..Len(time)) \ {Len(time) - 1} : IsDigit(time[i])

\* C5 as the specification states it: the custom time "9:5" is not refused as
\* an invalid time, and an entry stored for it carries 09:05.
C5_UnpaddedMinuteAccepted ==
    (req.op = "add" /\ req.customTime = <<"9", ":", "5">>)
    => (/\ res.errorType # "INVALID_TIME_FORMAT"
        /\ res.success => Stamp(res.entryAdded) = <<"0", "9", ":", "0", "5">>)

\* C5, amended: a custom time with a one-digit hour and a two-digit minute in
\* range is not refused as an invalid time and an entry stored for it carries
\* the hour padded with a zero; a custom time with a one-digit minute, such
\* as "9:5", fails with INVALID_TIME_FORMAT.
C5_UnpaddedHourAccepted ==
    req.op = "add" =>
        /\ UnpaddedHour(req.customTime) =>
              /\ res.errorType # "INVALID_TIME_FORMAT"
              /\ res.success =>
                    /\ Stamp(res.entryAdded) = <<"0">> \o req.customTime
                    /\ \E i \in 1..Len(WrittenBlock) :
                          WrittenBlock[i] = res.entryAdded
        /\ OneDigitMinute(req.customTime) =>
              (~res.success /\ res.errorType = "INVALID_TIME_FORMAT")

\* an entry stored at 07:30 for the custom time "7:30"
C5_Witness ==
    /\ AddSucceeded
    /\ req.customTime = ValidCustomTime
    /\ UnpaddedHour(req.customTime)
    /\ res.entryAdded = RenderEntry(<<"0", "7", ":", "3", "0">>, <<"a">>)
    /\ WrittenBlock[1] = res.entryAdded

\* a custom time HH:mm of digits whose hour is above 23 or minute above 59
OutOfRange(time) ==
    /\ Len(time) = 5
    /\ time[3] = ":"
    /\ \A i \in {1, 2, 4, 5} : IsDigit(time[i])
    /\ \/ 10 * DigitVal(time[1]) + DigitVal(time[2]) > 23
       \/ 10 * DigitVal(time[4]) + DigitVal(time[5]) > 59

\* C6: an add with a custom time out of range fails with INVALID_TIME_FORMAT
\* and has called no operation of storage: the files and the directory are
\* as they were.
C6_OutOfRangeBeforeStorage ==
    (req.op = "add" /\ OutOfRange(req.customTime))
    => /\ ~res.success
       /\ res.errorType = "INVALID_TIME_FORMAT"
       /\ calls = <<>>
       /\ store = pre.store
       /\ dirExists = pre.dirExists

\* the custom time "24:00" refused where the note and its directory would
\* have had to be created
C6_Witness ==
    /\ req.op = "add"
    /\ req.customTime = <<"2", "4", ":", "0", "0">>
    /\ OutOfRange(req.customTime)
    /\ pre.store[TodayPath] = Absent
    /\ ~pre.dirExists
    /\ res.errorType = "INVALID_TIME_FORMAT"
    /\ calls = <<>>

\* C7: a successful add to a note that does not exist, with the default
\* header, reports a new file and one entry in total, and the note written
\* has the section with one recognized entry line, the new one.
C7_NewNoteOneEntry ==
    (AddFrom(Absent) /\ todayHeader = DefaultHeader)
    => /\ res.isNewFile
       /\ res.totalEntries = 1
       /\ HasSection(store[TodayPath])
       /\ RawLines(NoteEntries(store[TodayPath])) = <<res.entryAdded>>

\* C8: whatever header is configured, an add to a note that does not exist
\* does not fail for want of the header.
C8_TemplateHasHeader ==
    (req.op = "add" /\ pre.store[TodayPath] = Absent)
    => res.errorType # "HEADER_NOT_FOUND"

\* the time the message of a request carries after its last "@", if any
MarkerTime(request) ==
    parseMessageWithTime(request.message, request.chrono, request.now).timestamp

\* C9: an add with a custom time that is not valid fails, whatever the
\* message carries; the entry of a successful add carries the custom time if
\* one is given, else the time of the message if it carries one, else the
\* time of the clock.
C9_TimestampPriority ==
    req.op = "add" =>
        /\ (req.customTime # NoTime /\ ~validateTimeFormat(req.customTime))
              => (~res.success /\ res.errorType = "INVALID_TIME_FORMAT")
        /\ (res.success /\ req.customTime # NoTime)
              => TotalMinutes(Stamp(res.entryAdded)) = TotalMinutes(req.customTime)
        /\ (res.success /\ req.customTime = NoTime /\ MarkerTime(req) # <<>>)
              => Stamp(res.entryAdded) = MarkerTime(req)
        /\ (res.success /\ req.customTime = NoTime /\ MarkerTime(req) = <<>>)
              => Stamp(res.entryAdded) = getCurrentTime(req.now)

\* the custom time 7:30 given with a message that carries 9:05, at 08:15
C9_Witness ==
    /\ AddSucceeded
    /\ req.customTime = ValidCustomTime
    /\ req.message = MsgStrict
    /\ MarkerTime(req) = <<"0", "9", ":", "0", "5">>
    /\ getCurrentTime(req.now) = <<"0", "8", ":", "1", "5">>
    /\ Stamp(res.entryAdded) = <<"0", "7", ":", "3", "0">>

Probed == probe.kind = "roundtrip"

RoundTrips ==
    /\ probe.entry.ok
    /\ probe.entry.time = probe.time
    /\ probe.entry.message = probe.message

LastAt(input) == Max({0} \cup {i \in 1..Len(input) : input[i] = "@"})

\* the text before the last '@' of an input, trimmed
TextBefore(input) == Trim(SubSeq(input, 1, LastAt(input) - 1))

\* the text after the last '@' of an input, as it stands
TextAfter(input) == SubSeq(input, LastAt(input) + 1, Len(input))

\* the input has an '@' and the text after the last one is H:mm or HH:mm
\* with the hour up to 23 and the minute up to 59, white space around it apart
StrictReference(input) ==
    /\ LastAt(input) > 0
    /\ Len(Trim(TextAfter(input))) \in {4, 5}
    /\ Len(Split(Trim(TextAfter(input)), ":")) = 2
    /\ Len(Split(Trim(TextAfter(input)), ":")[1]) \in {1, 2}
    /\ Len(Split(Trim(TextAfter(input)), ":")[2]) = 2
    /\ \A i \in 1..Len(Trim(TextAfter(input))) :
          IsDigit(Trim(TextAfter(input))[i]) \/ Trim(TextAfter(input))[i] = ":"
    /\ StrToNum(Split(Trim(TextAfter(input)), ":")[1]) <= 23
    /\ StrToNum(Split(Trim(TextAfter(input)), ":")[2]) <= 59

NoReference(parsed) ==
    /\ parsed.timestamp = <<>>
    /\ parsed.targetDate = <<>>
    /\ ~parsed.isNaturalLanguage
    /\ ~parsed.isFutureDate

\* what the resolver returns for a strict reference
StrictResult(parsed, input) ==
    /\ parsed.message = TextBefore(input)
    /\ Len(parsed.timestamp) = 5
    /\ TotalMinutes(parsed.timestamp) = TotalMinutes(Trim(TextAfter(input)))
    /\ ~parsed.isNaturalLanguage

\* the message of a line rendered as "- **HH:mm** message"
MessageOf(line) == Drop(line, 13)

\* C11: for an add whose message ends in a strict time after its last '@',
\* the resolver gives the trimmed text before the marker, the zero-padded
\* time and no natural-language flag, whatever the interpreter would answer,
\* and does not ask it; a successful add carries that message and returns no
\* parsedTime.
C11_StrictReferenceShortCircuit ==
    (req.op = "add" /\ StrictReference(req.message)) =>
        /\ ~ConsultsChrono(req.message)
        /\ \A answer \in ChronoAnswers :
              StrictResult(parseMessageWithTime(req.message, answer, req.now),
                           req.message)
        /\ res.success =>
              /\ res.parsedTime = <<>>
              /\ MessageOf(res.entryAdded) = TextBefore(req.message)

\* "b @9:05" added without a custom time
C11_Witness ==
    /\ AddSucceeded
    /\ req.message = MsgStrict
    /\ StrictReference(req.message)
    /\ req.customTime = NoTime
    /\ res.entryAdded = RenderEntry(<<"0", "9", ":", "0", "5">>, <<"b">>)
    /\ res.parsedTime = <<>>

\* the interpreter was asked and gave no date
NoAnswer(request) ==
    /\ LastAt(request.message) > 0
    /\ Trim(TextAfter(request.message)) # <<>>
    /\ ~StrictReference(request.message)
    /\ request.chrono.kind \in {"none", "throws"}

\* an add that meets no fault of storage succeeds when the note has the
\* header, or is absent and the header is the template's
HeaderAvailable ==
    \/ HasSection(pre.store[TodayPath])
    \/ pre.store[TodayPath] = Absent /\ todayHeader = DefaultHeader

\* C12: for an add whose reference is no strict time and gets no answer
\* from the interpreter (none, or an exception), the resolver gives the whole
\* trimmed input as the message and no time reference; the add fails for no
\* other reason than an invalid custom time or a missing header, and without a
\* custom time its entry is the whole trimmed input stamped with the time of
\* the clock.
C12_NoAnswerKeepsInput ==
    (req.op = "add" /\ NoAnswer(req)) =>
        /\ MarkerTime(req) = <<>>
        /\ parseMessageWithTime(req.message, req.chrono, req.now).message
              = Trim(req.message)
        /\ NoReference(parseMessageWithTime(req.message, req.chrono, req.now))
        /\ (req.customTime = NoTime /\ HeaderAvailable) =>
              /\ res.success
              /\ res.parsedTime = <<>>
              /\ res.entryAdded
                    = RenderEntry(getCurrentTime(req.now), Trim(req.message))

\* "c @yd" added at 13:30 when the interpreter throws
C12_Witness ==
    /\ AddSucceeded
    /\ req.message = MsgNatural
    /\ req.chrono = Throws
    /\ NoAnswer(req)
    /\ req.customTime = NoTime
    /\ res.entryAdded = RenderEntry(<<"1", "3", ":", "3", "0">>, MsgNatural)

Resolving == probe.kind = "resolve"

\* C13: the resolver cuts the input at its last '@'. With no '@', or with
\* nothing but white space after the last one, the whole trimmed input is the
\* message, no time reference is produced and the interpreter is not asked;
\* when a time reference is produced the message is the trimmed text before
\* the last '@', earlier '@' included; otherwise it is the whole trimmed input.
C13_SplitsOnLastMarker ==
    Resolving =>
        /\ (LastAt(probe.input) = 0 \/ Trim(TextAfter(probe.input)) = <<>>) =>
              /\ probe.parsed.message = Trim(probe.input)
              /\ NoReference(probe.parsed)
              /\ ~probe.asked
        /\ IF probe.parsed.timestamp # <<>> \/ probe.parsed.isNaturalLanguage
           THEN probe.parsed.message = TextBefore(probe.input)
           ELSE probe.parsed.message = Trim(probe.input)

\* "a@b @9:05" resolved to the message "a@b" and the time 09:05
C13_Witness ==
    /\ Resolving
    /\ probe.input = <<"a", "@", "b", " ", "@", "9", ":", "0", "5">>
    /\ probe.parsed.message = <<"a", "@", "b">>
    /\ probe.parsed.timestamp = <<"0", "9", ":", "0", "5">>

Listed == req.op = "list"

\* no line of the note is recognized as an entry
NoEntryLines(content) ==
    \A i \in 1..Len(Split(content, NL)) :
        ~parseLogEntry(Split(content, NL)[i]).ok

\* some line of the note is the configured header, white space around it apart
HeaderLinePresent(content) ==
    \E i \in 1..Len(Split(content, NL)) :
        Trim(Split(content, NL)[i]) = todayHeader

\* a call of storage threw: the one unclassified failure
StorageThrew == ~res.success /\ res.errorType = "FILE_WRITE_ERROR"

ListedProse ==
    /\ Listed
    /\ pre.store[TodayPath] # Absent
    /\ NoEntryLines(pre.store[TodayPath])

\* C14 as the specification states it: listing a note that exists and has no
\* recognized entry line, with or without the header, returns success with
\* no entries unless a call of storage threw.
C14_ProseListsEmpty ==
    ListedProse => (StorageThrew \/ (res.success /\ res.entries = <<>>))

\* C14, amended: unless a call of storage threw, listing a note that exists
\* and has no recognized entry line returns success with no entries when the
\* note has the configured header, and fails with HEADER_NOT_FOUND when it
\* has not.
C14_ProseListsEmptyUnderHeader ==
    (ListedProse /\ ~StorageThrew) =>
        IF HeaderLinePresent(pre.store[TodayPath])
        THEN res.success /\ res.entries = <<>>
        ELSE ~res.success /\ res.errorType = "HEADER_NOT_FOUND"

\* the note of prose under the default header, listed
C14_Witness ==
    /\ Listed
    /\ pre.store[TodayPath] = NoteProse
    /\ todayHeader = DefaultHeader
    /\ res.success
    /\ res.entries = <<>>
    /\ calls = <<Call("exists", TodayPath), Call("read", TodayPath)>>

\* C15: listing when today's note does not exist calls exists and nothing
\* else, and unless that call threw returns success with no entries and
\* today's filename.
C15_AbsentListsEmpty ==
    (Listed /\ pre.store[TodayPath] = Absent) =>
        /\ calls = <<Call("exists", TodayPath)>>
        /\ store = pre.store
        /\ dirExists = pre.dirExists
        /\ StorageThrew \/
              /\ res.success
              /\ res.entries = <<>>
              /\ res.filename = getFilenameForDate(req.now)

\* no note and no directory, listed
C15_Witness ==
    /\ Listed
    /\ pre.store[TodayPath] = Absent
    /\ ~dirExists
    /\ res.success
    /\ res.entries = <<>>
    /\ res.filename = <<"2", "0", "2", "5", "-", "0", "6", "-", "0", "7",
                        ".", "m", "d">>
    /\ calls = <<Call("exists", TodayPath)>>

CallNames == [i \in 1..Len(calls) |-> calls[i].name]

LastCall == IF calls = <<>> THEN "" ELSE calls[Len(calls)].name

\* the call that follows exists in an add: read of a note that is there,
\* ensureDir for one that is not
SecondCall == IF pre.store[TodayPath] = Absent THEN "ensureDir" ELSE "read"

\* C16: the storage calls of an add are a prefix of exists, then read (note
\* there) or ensureDir (note absent), then write, each on today's path or the
\* journal directory; a successful add has made all three, so write is called
\* once and last, and storage changes only in an add that ends with write.
C16_StorageCallOrder ==
    req.op = "add" =>
        /\ CallNames \in {<<>>, <<"exists">>, <<"exists", SecondCall>>,
                          <<"exists", SecondCall, "write">>}
        /\ \A i \in 1..Len(calls) :
              calls[i].path = IF calls[i].name = "ensureDir" THEN JournalDir
                              ELSE TodayPath
        /\ res.success => Len(calls) = 3
        /\ store # pre.store => (res.success /\ LastCall = "write")

\* a note created: exists, ensureDir, write
C16_Witness ==
    /\ AddFrom(Absent)
    /\ ~pre.dirExists
    /\ calls = <<Call("exists", TodayPath), Call("ensureDir", JournalDir),
                 Call("write", TodayPath)>>
    /\ store[TodayPath] # Absent

\* the read of the note threw
ReadThrew == StorageThrew /\ LastCall = "read"

\* the write of the note threw
WriteThrew == StorageThrew /\ LastCall = "write"

\* C17: an add that fails for an invalid custom time, a missing header or a
\* throwing read leaves the files and the directory as they were.
C17_FailureLeavesStorage ==
    (/\ req.op = "add"
     /\ ~res.success
     /\ \/ res.errorType \in {"INVALID_TIME_FORMAT", "HEADER_NOT_FOUND"}
        \/ ReadThrew)
    => (store = pre.store /\ dirExists = pre.dirExists)

\* the kinds of failure of LoggerErrorType
LoggerErrorTypes ==
    {"DIRECTORY_NOT_FOUND", "HEADER_NOT_FOUND", "FILE_WRITE_ERROR",
     "INVALID_ARGUMENTS", "INVALID_TIME_FORMAT", "NO_ENTRIES_TO_UNDO",
     "FILE_NOT_FOUND"}

C19_ReadFailureDistinct ==
    ReadThrew => res.errorType # "FILE_WRITE_ERROR"

\* the note before a successful add: the one on disk, or the template
NoteBefore ==
    IF pre.store[TodayPath] = Absent
    THEN Join(<<<<"#", " ", "2", "0", "2", "5", "-", "0", "6", "-", "0", "7">>,
                <<>>, DefaultHeader, <<>>, <<>>>>, NL)
    ELSE pre.store[TodayPath]

\* the first line that is the configured header, counted from 1
HeaderAt(lines) ==
    Min({i \in 1..Len(lines) : Trim(lines[i]) = todayHeader})

\* the first line after the header that begins with "## ", or the line count
\* plus one
SectionEndAt(lines) ==
    Min({i \in (HeaderAt(lines) + 1)..Len(lines) :
            StartsWith(lines[i], <<"#", "#", " ">>)} \cup {Len(lines) + 1})

SameOutside(before, after) ==
    /\ HeaderAt(after) = HeaderAt(before)
    /\ SubSeq(after, 1, HeaderAt(after)) = SubSeq(before, 1, HeaderAt(before))
    /\ SubSeq(after, SectionEndAt(after), Len(after))
          = SubSeq(before, SectionEndAt(before), Len(before))

\* C20: after a successful add the lines up to and including the header, and
\* the lines from the end of the section to the end of the note, are those of
\* the note before, in the same order.
C20_OutsideSectionUnchanged ==
    AddSucceeded =>
        SameOutside(Split(NoteBefore, NL), Split(store[TodayPath], NL))

\* an add into the note that has an introduction before the header and
\* another section, with an entry line, after the Today section
C20_Witness ==
    /\ AddFrom(NoteMixed)
    /\ HeaderAt(Split(store[TodayPath], NL)) = 2
    /\ SubSeq(Split(store[TodayPath], NL),
              SectionEndAt(Split(store[TodayPath], NL)),
              Len(Split(store[TodayPath], NL)))
          = <<<<"#", "#", " ", "O", "t", "h", "e", "r">>,
              <<"-", " ", "0", "7", ":", "0", "0", " ", "z">>>>
    /\ Len(Split(store[TodayPath], NL)) = 10

\* the lines of the section of a note, the header line apart
SectionBody(lines) ==
    SubSeq(lines, HeaderAt(lines) + 1, SectionEndAt(lines) - 1)

BodyBefore == SectionBody(Split(NoteBefore, NL))

BodyAfter == SectionBody(Split(store[TodayPath], NL))

Recognized(lines) == SelectSeq(lines, LAMBDA line : parseLogEntry(line).ok)

NonEntries(lines) == SelectSeq(lines, LAMBDA line : ~parseLogEntry(line).ok)

Count(line, lines) == Cardinality({i \in 1..Len(lines) : lines[i] = line})

\* C21: after a successful add every recognized entry line of the section
\* before is in the section, with the same text, as many times as before, and
\* the section has one more recognized entry line than before.
C21_EntriesOnlyInserted ==
    AddSucceeded =>
        /\ \A i \in 1..Len(BodyBefore) :
              parseLogEntry(BodyBefore[i]).ok =>
                  Count(BodyBefore[i], Recognized(BodyAfter))
                      >= Count(BodyBefore[i], Recognized(BodyBefore))
        /\ Len(Recognized(BodyAfter)) = Len(Recognized(BodyBefore)) + 1

\* the section before has lines that are no entries
Interleaved == NonEntries(BodyBefore) # <<>> /\ Recognized(BodyBefore) # <<>>

\* C22 as the specification states it: after a successful add into a section
\* where lines that are no entries stand among the entries, those lines come
\* first after the header and the entry lines follow them.
C22_NonEntriesFirst ==
    (AddSucceeded /\ Interleaved) =>
        BodyAfter = NonEntries(BodyBefore) \o WrittenBlock

\* C22, amended: after a successful add the section is the block of entry
\* lines, directly after the header, followed by the lines of the section
\* before that are no entries, in their order.
C22_EntriesFirst ==
    AddSucceeded => BodyAfter = WrittenBlock \o NonEntries(BodyBefore)

\* an add into the section with a blank line and prose among its entries
C22_Witness ==
    /\ AddFrom(NoteMixed)
    /\ Interleaved
    /\ NonEntries(BodyBefore) = <<<<>>, <<"p">>>>
    /\ Len(WrittenBlock) = 4
    /\ SubSeq(BodyAfter, 5, 6) = <<<<>>, <<"p">>>>

\* sequences with the same elements, each as many times
SameLines(a, b) ==
    /\ Len(a) = Len(b)
    /\ \A i \in 1..Len(a) : Count(a[i], a) = Count(a[i], b)

\* block is the entries before and the new line, in order of time, at the top
\* of the section after, with no entry line below it
ContiguousBlock(block, before, after) ==
    /\ Len(block) = Len(before) + 1
    /\ Len(block) = res.totalEntries
    /\ SubSeq(after, 1, Len(block)) = block
    /\ SameLines(block, Append(before, res.entryAdded))
    /\ \A i \in 1..(Len(block) - 1) :
          LineMinutes(block[i]) <= LineMinutes(block[i + 1])
    /\ \A i \in (Len(block) + 1)..Len(after) : ~parseLogEntry(after[i]).ok

\* C23: after a successful add the lines that follow the header, as many as
\* the add counts entries, are the recognized entries of the section before
\* and the new line, in non-decreasing order of time, and no recognized entry
\* line of the section stands after them.
C23_EntriesContiguousAfterHeader ==
    AddSucceeded =>
        ContiguousBlock(WrittenBlock, Recognized(BodyBefore), BodyAfter)

\* the block of four entries after the header of the note whose entries
\* stood among other lines, the new one first
C23_Witness ==
    /\ AddFrom(NoteMixed)
    /\ res.totalEntries = 4
    /\ BodyAfter[1] = res.entryAdded
    /\ BodyAfter[2] = <<"-", " ", "9", ":", "0", "5", " ", "x">>
    /\ Recognized(BodyAfter) = WrittenBlock
    /\ Len(BodyAfter) = 6

\* C24: after a successful add the lines of the section that are no
\* recognized entries are those of the section before, in the same order.
C24_NonEntriesPreserved ==
    AddSucceeded => NonEntries(BodyAfter) = NonEntries(BodyBefore)

\* the message of a request once its time reference is taken off
MessageLeft(request) ==
    parseMessageWithTime(request.message, request.chrono, request.now).message

\* C28: the entry written by a successful add has a message that is not
\* empty after trimming, and an add whose message is empty once its time
\* reference is taken off writes nothing.
C28_NoEmptyMessageWritten ==
    /\ AddSucceeded => Trim(MessageOf(res.entryAdded)) # <<>>
    /\ (req.op = "add" /\ Trim(MessageLeft(req)) = <<>>) => ~WroteAny

\* C29: the parsedTime that a successful add returns, when it returns one, is
\* the timestamp of the entry line it wrote, with or without a custom time in
\* the request.
C29_ParsedTimeIsWrittenTime ==
    (AddSucceeded /\ res.parsedTime # <<>>) =>
        res.parsedTime = Stamp(res.entryAdded)

Locating == probe.kind = "locate"

\* the lines of the located note, and line i of them counted from 0
LocatedLines == Split(probe.content, NL)

LocatedLine(i) == LocatedLines[i + 1]

IsSectionMarker(line) == StartsWith(line, <<"#", "#", " ">>)

ContainsHeader ==
    \E i \in 0..(Len(LocatedLines) - 1) : Trim(LocatedLine(i)) = probe.headerText

\* C25: for every note that contains the header, the locator finds the
\* section; its start is the index of the first line whose trimmed text is
\* the header; its end is the index of the first later line that starts with
\* "## ", or the line count when there is none; start < end <= line count.
C25_SectionBounds ==
    (Locating /\ ContainsHeader) =>
        /\ probe.section.found
        /\ probe.section.lines = LocatedLines
        /\ probe.section.startIndex \in 0..(Len(LocatedLines) - 1)
        /\ Trim(LocatedLine(probe.section.startIndex)) = probe.headerText
        /\ \A i \in 0..(probe.section.startIndex - 1) :
              Trim(LocatedLine(i)) # probe.headerText
        /\ probe.section.startIndex < probe.section.endIndex
        /\ probe.section.endIndex <= Len(LocatedLines)
        /\ \A i \in (probe.section.startIndex + 1)..(probe.section.endIndex - 1) :
              ~IsSectionMarker(LocatedLine(i))
        /\ probe.section.endIndex < Len(LocatedLines) =>
              IsSectionMarker(LocatedLine(probe.section.endIndex))

\* a padded header on the second line, found for the default header, its
\* section ended by the level-2 header on the third line
C25_Witness ==
    /\ Locating
    /\ probe.headerText = DefaultHeader
    /\ LocatedLines = <<<<"p">>, <<" ">> \o DefaultHeader \o <<" ">>,
                        <<"#", "#", " ", "O">>>>
    /\ probe.section.startIndex = 1
    /\ probe.section.endIndex = 2

Parsing == probe.kind = "parse"

\* the line "- **HH:mm** message" of the time and message of the parsed entry
Rendering == RenderEntry(formatTime(probe.entry.time), probe.entry.message)

\* the parsed line is written as add writes its lines
CanonicalForm ==
    /\ probe.gap = <<" ">>
    /\ probe.open
    /\ probe.close
    /\ Len(probe.time) = 5
    /\ probe.sep = <<" ">>

\* C26 as the specification states it: the raw line of every entry that the
\* parser produces is the canonical rendering of its time, zero-padded, and
\* its message.
C26_RawIsRendering ==
    (Parsing /\ probe.entry.ok) => probe.entry.raw = Rendering

\* C26, amended: the raw line of every entry that the parser produces is the
\* parsed line as it stands; it is the canonical rendering when the line is
\* written in canonical form, and it is not when the line lacks a bold marker
\* or has a one-digit hour.
C26_RawIsLine ==
    (Parsing /\ probe.entry.ok) =>
        /\ probe.entry.raw = probe.line
        /\ CanonicalForm => probe.entry.raw = Rendering
        /\ (~probe.open \/ ~probe.close \/ Len(probe.time) = 4) =>
              probe.entry.raw # Rendering

\* the line "- 9:05 x" parsed: its raw is the line, not "- **09:05** x"
C26_Witness ==
    /\ Parsing
    /\ probe.line = <<"-", " ", "9", ":", "0", "5", " ", "x">>
    /\ probe.entry.ok
    /\ probe.entry.raw = probe.line
    /\ Rendering = <<"-", " ", "*", "*", "0", "9", ":", "0", "5", "*", "*", " ",
                     "x">>

\* nothing, or one space, follows the time token
EmptyRemainder == Parsing /\ probe.message = <<>> /\ Len(probe.sep) <= 1

\* C27 as the specification states it: a line of the bullet, the time token
\* and an empty remainder is recognized as an entry, with an empty message.
C27_EmptyRemainderRecognized ==
    EmptyRemainder => (probe.entry.ok /\ probe.entry.message = <<>>)

\* C27, amended: a line of the bullet, the time token and an empty remainder
\* is not recognized as an entry, and no recognized entry has an empty
\* message.
C27_EmptyRemainderNotRecognized ==
    /\ EmptyRemainder => ~probe.entry.ok
    /\ (Parsing /\ probe.entry.ok) => probe.entry.message # <<>>

\* the line "- **14:30** ", as add renders an empty message, parsed
C27_Witness ==
    /\ EmptyRemainder
    /\ probe.line = <<"-", " ", "*", "*", "1", "4", ":", "3", "0", "*", "*", " ">>
    /\ probe.line = RenderEntry(probe.time, <<>>)
    /\ ~probe.entry.ok

\* the calls of submitEntry that await storage
InFlight == {t \in Triggers : modal.adds[t].pc \notin {"idle", "done"}}

\* the calls of submitEntry that returned success
Succeeded ==
    {t \in Triggers : modal.adds[t].pc = "done" /\ modal.adds[t].result.success}

\* the entry lines of a note that carry the message typed into the modal
TypedLines(content) ==
    IF content = Absent THEN <<>>
    ELSE SelectSeq(Split(content, NL),
                   LAMBDA line : /\ parseLogEntry(line).ok
                                 /\ parseLogEntry(line).message
                                       = ModalParsed(modal.now).message)

\* C30: the modal has at most one add in flight; the message typed into it
\* is written to the note at most once, the note holding at most one more
\* line with it than before the modal opened; the line that an add reported
\* as added stands in the note, not overwritten by another add.
C30_OneAddInFlight ==
    /\ Cardinality(InFlight) <= 1
    /\ Len(TypedLines(store[TodayPath]))
          <= Len(TypedLines(pre.store[TodayPath])) + 1
    /\ \A t \in Succeeded :
          Count(modal.adds[t].result.entryAdded, Split(store[TodayPath], NL)) >= 1

=============================================================================
